---- MODULE Spec2Model ----
(***************************************************************************)
(* Model of the alloy-analysis bot of src/main.py: the composition parser, *)
(* the analyzer, the alloy database with its similarity score, and the     *)
(* message handlers that drive them.                                       *)
(*                                                                         *)
(* Representation.  A text is a sequence of one-character strings; a menu  *)
(* button label is a single atom of a text.  A percentage is an integer    *)
(* number of hundredths of a percent (62.0 is 6200); a similarity score is *)
(* an integer number of ten-thousandths (1.0 is 10000, the threshold 0.3   *)
(* is 3000), so that 1 - total_diff/100 is 10000 - total_diff exactly.     *)
(* IEEE rounding of the score is not modelled.  A dict is a sequence of    *)
(* <<key, value>> pairs with distinct keys, in insertion order.            *)
(***************************************************************************)
EXTENDS Integers, Sequences, FiniteSets, TLC

VARIABLES pc, handler, text, nwords, composition, other, score,
          analysis, matches, relevant, reply

vars == <<pc, handler, text, nwords, composition, other, score,
          analysis, matches, relevant, reply>>

(* ---------------------------- bounds ----------------------------------- *)

\* number of whitespace-separated pieces a user types into one message
MaxWords == 4

\* number of entries of a composition handed directly to the engine
MaxElems == 2

(* ------------------------- element symbols ----------------------------- *)

Cu == <<"C", "u">>
Zn == <<"Z", "n">>
Pb == <<"P", "b">>
Fe == <<"F", "e">>
Al == <<"A", "l">>
Ni == <<"N", "i">>
Sn == <<"S", "n">>
Ti == <<"T", "i">>
Si == <<"S", "i">>
C == <<"C">>
Mn == <<"M", "n">>
Cr == <<"C", "r">>
Mg == <<"M", "g">>

\* the supported-elements list of parse_composition
elements == <<Cu, Zn, Pb, Fe, Al, Ni, Sn, Ti, Si, C, Mn, Cr, Mg>>

InList(x, list) == \E i \in 1..Len(list) : list[i] = x

(* ------------------------------ dicts ---------------------------------- *)

Keys(d) == {d[i][1] : i \in 1..Len(d)}

HasKey(d, k) == \E i \in 1..Len(d) : d[i][1] = k

Get(d, k) == d[CHOOSE i \in 1..Len(d) : d[i][1] = k][2]

\* d[k] = v of a Python dict: a new key is appended, an existing key keeps
\* its position and takes the new value
DictSet(d, k, v) ==
    IF HasKey(d, k)
    THEN [i \in 1..Len(d) |-> IF d[i][1] = k THEN <<k, v>> ELSE d[i]]
    ELSE Append(d, <<k, v>>)

(* ------------------------- string operations --------------------------- *)

Whitespace == {" ", "\n"}

Digits == <<"0", "1", "2", "3", "4", "5", "6", "7", "8", "9">>

IsDigit(c) == \E i \in 1..10 : Digits[i] = c

DigitVal(c) == (CHOOSE i \in 1..10 : Digits[i] = c) - 1

\* str.split() without arguments: the maximal runs of non-whitespace
RECURSIVE SplitFrom(_, _, _, _)
SplitFrom(s, i, cur, acc) ==
    IF i > Len(s)
    THEN IF cur = <<>> THEN acc ELSE Append(acc, cur)
    ELSE IF s[i] \in Whitespace
         THEN SplitFrom(s, i + 1, <<>>, IF cur = <<>> THEN acc ELSE Append(acc, cur))
         ELSE SplitFrom(s, i + 1, Append(cur, s[i]), acc)

split(s) == SplitFrom(s, 1, <<>>, <<>>)

\* str.replace(ch, ''): every occurrence of ch removed
replace(w, ch) == SelectSeq(w, LAMBDA c : c # ch)

AllDigits(w) == \A i \in 1..Len(w) : IsDigit(w[i])

RECURSIVE DigitsValue(_)
DigitsValue(w) ==
    IF w = <<>> THEN 0
    ELSE 10 * DigitsValue(SubSeq(w, 1, Len(w) - 1)) + DigitVal(w[Len(w)])

RECURSIVE Pow10(_)
Pow10(n) == IF n = 0 THEN 1 ELSE 10 * Pow10(n - 1)

Unsigned(w) == IF w # <<>> /\ w[1] \in {"-", "+"} THEN Tail(w) ELSE w

DotAt(w) == IF \E i \in 1..Len(w) : w[i] = "."
            THEN CHOOSE i \in 1..Len(w) : w[i] = "." /\ \A j \in 1..(i - 1) : w[j] # "."
            ELSE Len(w) + 1

IntPart(w) == SubSeq(w, 1, DotAt(w) - 1)

FracPart(w) == SubSeq(w, DotAt(w) + 1, Len(w))

\* float(w) does not raise ValueError: an optional sign, then decimal digits
\* with at most one point and at least one digit (over the modelled alphabet,
\* which has no exponent letter, underscore, "inf" or "nan")
FloatOk(w) ==
    LET u == Unsigned(w) IN
    /\ AllDigits(IntPart(u))
    /\ AllDigits(FracPart(u))
    /\ Len(IntPart(u)) + Len(FracPart(u)) > 0

\* float(w) in hundredths; exact for literals of at most two fractional
\* digits, which is all the modelled inputs contain
FloatVal(w) ==
    LET u == Unsigned(w)
        mag == DigitsValue(IntPart(u)) * 100
               + (DigitsValue(FracPart(u)) * 100) \div Pow10(Len(FracPart(u)))
    IN IF w # <<>> /\ w[1] = "-" THEN 0 - mag ELSE mag

(* ------------------------- CompositionAnalyzer ------------------------- *)

\* the fallback literal {'Cu': 75.45, 'Ni': 12.50, 'Zn': 9.76}
DemoComposition == << <<Cu, 7545>>, <<Ni, 1250>>, <<Zn, 976>> >>

\* the for loop of parse_composition over enumerate(words)
RECURSIVE ParseLoop(_, _, _)
ParseLoop(words, i, comp) ==
    IF i > Len(words) THEN comp
    ELSE IF InList(words[i], elements) /\ i + 1 <= Len(words)
         THEN LET next_word == replace(replace(words[i + 1], "%"), ",") IN
              IF FloatOk(next_word)
              THEN ParseLoop(words, i + 1, DictSet(comp, words[i], FloatVal(next_word)))
              ELSE ParseLoop(words, i + 1, comp)
         ELSE ParseLoop(words, i + 1, comp)

parse_composition(t) ==
    LET comp == ParseLoop(split(t), 1, <<>>) IN
    IF comp = <<>> THEN DemoComposition ELSE comp


\* the absent main element
None == <<>>

\* the scan of max_item_last: a later item of equal value replaces the best one
RECURSIVE MaxItemFromLast(_, _, _)
MaxItemFromLast(items, i, best) ==
    IF i > Len(items) THEN best
    ELSE MaxItemFromLast(items, i + 1, IF items[i][2] >= best[2] THEN items[i] ELSE best)

\* max(composition.items(), key=lambda x: x[1]): the first item of maximal value
RECURSIVE MaxItemFrom(_, _, _)
MaxItemFrom(items, i, best) ==
    IF i > Len(items) THEN best
    ELSE MaxItemFrom(items, i + 1, IF items[i][2] > best[2] THEN items[i] ELSE best)

\* mutant of max_item: among the items of maximal value, the last one
max_item_last(items) == MaxItemFromLast(items, 2, items[1])

max_item(items) == MaxItemFrom(items, 2, items[1])

_get_alloy_description(comp) ==
    IF HasKey(comp, Cu) /\ Get(comp, Cu) > 5000 THEN "copper"
    ELSE IF HasKey(comp, Al) /\ Get(comp, Al) > 5000 THEN "aluminum"
    ELSE IF HasKey(comp, Fe) /\ Get(comp, Fe) > 5000 THEN "iron"
    ELSE "generic"

_get_applications(comp) ==
    LET apps == (IF HasKey(comp, Cu)
                 THEN <<"electrical", "jewellery", "plumbing">> ELSE <<>>)
                \o (IF HasKey(comp, Al)
                    THEN <<"aviation", "packaging", "construction">> ELSE <<>>)
                \o (IF HasKey(comp, Fe)
                    THEN <<"machinery", "construction", "tools">> ELSE <<>>)
    IN IF apps # <<>>
       THEN SubSeq(apps, 1, IF Len(apps) < 4 THEN Len(apps) ELSE 4)
       ELSE <<"various">>

analyze_composition(comp) ==
    [description |-> _get_alloy_description(comp),
     main_element |-> IF comp # <<>> THEN max_item(comp) ELSE None,
     possible_applications |-> _get_applications(comp),
     recommendations |-> <<"looks correct">>]

filter_relevant_alloys(comp, ms) == SelectSeq(ms, LAMBDA m : m.score > 3000)

(* ----------------------------- AlloyDatabase --------------------------- *)

\* the demo catalog; the stored 'score' field of an entry is never read
_load_demo_data ==
    << [name |-> "Latun L63",
        composition |-> << <<Cu, 6200>>, <<Zn, 3800>> >>],
       [name |-> "Melchior MN19",
        composition |-> << <<Cu, 8100>>, <<Ni, 1900>> >>],
       [name |-> "Neusilber MNC15-20",
        composition |-> << <<Cu, 6500>>, <<Ni, 1500>>, <<Zn, 2000>> >>],
       [name |-> "Bronze BrOF6.5-0.15",
        composition |-> << <<Cu, 9300>>, <<Sn, 650>> >>],
       [name |-> "Aluminium AMg6",
        composition |-> << <<Al, 9400>>, <<Mg, 600>> >>] >>

alloys == _load_demo_data

Abs(x) == IF x < 0 THEN 0 - x ELSE x

RECURSIVE TotalDiff(_, _, _)
TotalDiff(common, comp1, comp2) ==
    IF common = {} THEN 0
    ELSE LET element == CHOOSE e \in common : TRUE IN
         Abs(Get(comp1, element) - Get(comp2, element))
         + TotalDiff(common \ {element}, comp1, comp2)

\* mutant of _calculate_similarity: the differences are summed without abs()
RECURSIVE TotalSignedDiff(_, _, _)
TotalSignedDiff(common, comp1, comp2) ==
    IF common = {} THEN 0
    ELSE LET element == CHOOSE e \in common : TRUE IN
         (Get(comp1, element) - Get(comp2, element))
         + TotalSignedDiff(common \ {element}, comp1, comp2)

_calculate_similarity_signed(comp1, comp2) ==
    LET common_elements == Keys(comp1) \cap Keys(comp2) IN
    IF common_elements = {} THEN 0
    ELSE LET s == 10000 - TotalSignedDiff(common_elements, comp1, comp2) IN
         IF s > 0 THEN s ELSE 0

_calculate_similarity(comp1, comp2) ==
    LET common_elements == Keys(comp1) \cap Keys(comp2) IN
    IF common_elements = {} THEN 0
    ELSE LET s == 10000 - TotalDiff(common_elements, comp1, comp2) IN
         IF s > 0 THEN s ELSE 0

\* the loop of find_matching_alloys: the entries scoring above 0.3, in catalog order
RECURSIVE MatchLoop(_, _, _)
MatchLoop(comp, i, ms) ==
    IF i > Len(alloys) THEN ms
    ELSE LET sc == _calculate_similarity(comp, alloys[i].composition) IN
         MatchLoop(comp, i + 1,
                   IF sc > 3000
                   THEN Append(ms, [name |-> alloys[i].name, score |-> sc,
                                    composition |-> alloys[i].composition])
                   ELSE ms)

\* mutant of InsertDesc: an element goes before the elements of equal score,
\* as when an ascending sort is reversed
InsertDescBeforeEqual(sorted, m) ==
    LET k == Cardinality({j \in 1..Len(sorted) : sorted[j].score > m.score}) IN
    SubSeq(sorted, 1, k) \o <<m>> \o SubSeq(sorted, k + 1, Len(sorted))

\* sorted(..., key=score, reverse=True): stable, descending; an element goes
\* after every element already placed whose score is at least its own
InsertDesc(sorted, m) ==
    LET k == Cardinality({j \in 1..Len(sorted) : sorted[j].score >= m.score}) IN
    SubSeq(sorted, 1, k) \o <<m>> \o SubSeq(sorted, k + 1, Len(sorted))

RECURSIVE SortFrom(_, _, _)
SortFrom(ms, i, acc) ==
    IF i > Len(ms) THEN acc ELSE SortFrom(ms, i + 1, InsertDesc(acc, ms[i]))

sorted_desc(ms) == SortFrom(ms, 1, <<>>)

\* mutant of Slice3: the list is not truncated
SliceAll(ms) == ms

\* the slice [:3]
Slice3(ms) == SubSeq(ms, 1, IF Len(ms) < 3 THEN Len(ms) ELSE 3)

find_matching_alloys(comp) == Slice3(sorted_desc(MatchLoop(comp, 1, <<>>)))


(* ------------------------------ handlers ------------------------------- *)

\* the labels of the reply-keyboard buttons, each sent as a whole message text
MenuLabels == {"Analyze photo", "Help", "Example", "Alloy database",
               "New analysis", "Main menu"}

\* the reply handle_menu_commands sends, "none" when it returns False
handle_menu_commands(t) ==
    IF t = <<"Analyze photo">> THEN "photo_prompt"
    ELSE IF t = <<"Help">> THEN "help"
    ELSE IF t = <<"Example">> THEN "example"
    ELSE IF t = <<"Alloy database">> THEN "database"
    ELSE IF t = <<"New analysis">> THEN "new_analysis"
    ELSE IF t = <<"Main menu">> THEN "welcome"
    ELSE "none"

\* YandexVision.extract_text_from_image: "Cu 75.45%, Ni 12.50%, Zn 9.76%"
extract_text_from_image ==
    <<"C", "u", " ", "7", "5", ".", "4", "5", "%", ",", " ",
      "N", "i", " ", "1", "2", ".", "5", "0", "%", ",", " ",
      "Z", "n", " ", "9", ".", "7", "6", "%">>

NoAnalysis == [description |-> "none", main_element |-> None,
               possible_applications |-> <<>>, recommendations |-> <<>>]

\* the words a user types, joined by single spaces into a message
Pieces ==
    { Cu, Zn, Pb,
      <<"C", "u", ":">>, <<"Z", "n", ":">>,
      <<"6", "2">>, <<"6", "2", ",">>, <<"6", "2", "%", ",">>, <<"6", "2", ";">>,
      <<"3", "8">>, <<"3", "8", "%">>,
      <<"-", "5">>,
      <<"a", "b", "c">> }

IsButton(t) == Len(t) = 1 /\ t[1] \in MenuLabels

Init ==
    /\ pc = "idle"
    /\ handler = "none"
    /\ text = <<>>
    /\ nwords = 0
    /\ composition = <<>>
    /\ other = <<>>
    /\ score = 0
    /\ analysis = NoAnalysis
    /\ matches = <<>>
    /\ relevant = <<>>
    /\ reply = "none"

\* the user types one more word of the message
TypeWord ==
    /\ pc = "idle"
    /\ nwords < MaxWords
    /\ ~IsButton(text)
    /\ \E p \in Pieces :
          text' = IF text = <<>> THEN p ELSE text \o <<" ">> \o p
    /\ nwords' = nwords + 1
    /\ UNCHANGED <<pc, handler, composition, other, score, analysis,
                   matches, relevant, reply>>

\* the user presses a keyboard button
PressButton ==
    /\ pc = "idle"
    /\ text = <<>>
    /\ \E b \in MenuLabels : text' = <<b>>
    /\ UNCHANGED <<pc, handler, nwords, composition, other, score, analysis,
                   matches, relevant, reply>>

\* send_analysis_result(update, comp), as the conjuncts it contributes
send_analysis_result(comp) ==
    IF comp = <<>>
    THEN /\ reply' = "undetermined"
         /\ UNCHANGED <<analysis, matches, relevant>>
    ELSE /\ analysis' = analyze_composition(comp)
         /\ matches' = find_matching_alloys(comp)
         /\ relevant' = filter_relevant_alloys(comp, find_matching_alloys(comp))
         /\ reply' = "analysis"

handle_text ==
    /\ pc = "idle"
    /\ text # <<>>
    /\ pc' = "handled"
    /\ handler' = "handle_text"
    /\ IF handle_menu_commands(text) # "none"
       THEN /\ reply' = handle_menu_commands(text)
            /\ UNCHANGED <<composition, analysis, matches, relevant>>
       ELSE /\ composition' = parse_composition(text)
            /\ IF parse_composition(text) # <<>>
               THEN send_analysis_result(parse_composition(text))
               ELSE /\ reply' = "not_found"
                    /\ UNCHANGED <<analysis, matches, relevant>>
    /\ UNCHANGED <<text, nwords, other, score>>

\* downloaded = FALSE: the download raises and the except branch answers
handle_photo ==
    /\ pc = "idle"
    /\ text = <<>>
    /\ pc' = "handled"
    /\ handler' = "handle_photo"
    /\ \E downloaded \in BOOLEAN :
          IF ~downloaded
          THEN /\ reply' = "photo_error"
               /\ UNCHANGED <<composition, analysis, matches, relevant>>
          ELSE IF extract_text_from_image = <<>>
          THEN /\ reply' = "not_recognized"
               /\ UNCHANGED <<composition, analysis, matches, relevant>>
          ELSE /\ composition' = parse_composition(extract_text_from_image)
               /\ send_analysis_result(parse_composition(extract_text_from_image))
    /\ UNCHANGED <<text, nwords, other, score>>

start ==
    /\ pc = "idle"
    /\ text = <<>>
    /\ pc' = "handled"
    /\ handler' = "start"
    /\ reply' = "welcome"
    /\ UNCHANGED <<text, nwords, composition, other, score, analysis,
                   matches, relevant>>

\* the dispatcher takes the next update; nothing of a message outlives it
NextUpdate ==
    /\ pc = "handled"
    /\ pc' = "idle"
    /\ handler' = "none"
    /\ text' = <<>>
    /\ nwords' = 0
    /\ composition' = <<>>
    /\ analysis' = NoAnalysis
    /\ matches' = <<>>
    /\ relevant' = <<>>
    /\ reply' = "none"
    /\ UNCHANGED <<other, score>>

Next == TypeWord \/ PressButton \/ handle_text \/ handle_photo \/ start \/ NextUpdate

Spec == Init /\ [][Next]_vars


(* ------------- the engine applied to compositions directly ------------- *)

CoreElements == {Cu, Zn, Al, Fe}

CoreValues == {0, 3800, 6200, 7300}

\* the dicts of at most MaxElems entries over CoreElements and CoreValues
Compositions ==
    {c \in UNION {[1..n -> CoreElements \X CoreValues] : n \in 0..MaxElems} :
        \A i, j \in 1..Len(c) : c[i][1] = c[j][1] => i = j}

\* the second argument of a comparison: the dicts of Compositions whose
\* values are the two extreme ones
OtherCompositions ==
    {c \in Compositions : \A i \in 1..Len(c) : c[i][2] \in {0, 7300}}

InitCore ==
    /\ pc = "core"
    /\ handler = "none"
    /\ text = <<>>
    /\ nwords = 0
    /\ composition \in Compositions
    /\ other = <<>>
    /\ score = 0
    /\ analysis = NoAnalysis
    /\ matches = <<>>
    /\ relevant = <<>>
    /\ reply = "none"

CalculateSimilarity ==
    /\ pc = "core"
    /\ pc' = "scored"
    /\ \E b \in OtherCompositions \cup {composition} :
          /\ other' = b
          /\ score' = _calculate_similarity(composition, b)
    /\ UNCHANGED <<handler, text, nwords, composition, analysis,
                   matches, relevant, reply>>

Analyze ==
    /\ pc = "core"
    /\ pc' = "analyzed"
    /\ analysis' = analyze_composition(composition)
    /\ UNCHANGED <<handler, text, nwords, composition, other, score,
                   matches, relevant, reply>>

FindMatching ==
    /\ pc = "core"
    /\ pc' = "matched"
    /\ matches' = find_matching_alloys(composition)
    /\ relevant' = filter_relevant_alloys(composition, find_matching_alloys(composition))
    /\ UNCHANGED <<handler, text, nwords, composition, other, score,
                   analysis, reply>>

NextCore == CalculateSimilarity \/ Analyze \/ FindMatching

SpecCore == InitCore /\ [][NextCore]_vars


(* ======================= properties of the parser ====================== *)

\* a free text (not a button label) has been handled by handle_text
Parsed == pc = "handled" /\ handler = "handle_text" /\ ~IsButton(text)

\* a dict as the set of its entries
AsMap(d) == {d[i] : i \in 1..Len(d)}

Clean(w) == replace(replace(w, "%"), ",")

\* position i of words holds an element symbol followed by a number
GoodAt(words, i) ==
    /\ i < Len(words)
    /\ InList(words[i], elements)
    /\ FloatOk(Clean(words[i + 1]))

\* position i of words holds an element symbol followed by no number
MalformedAt(words, i) == InList(words[i], elements) /\ ~GoodAt(words, i)

\* the element/number pairs of words, the last one of each element
RecoveredPairs(words) ==
    {<<words[i], FloatVal(Clean(words[i + 1]))>> :
        i \in {k \in 1..Len(words) :
                 /\ GoodAt(words, k)
                 /\ \A l \in (k + 1)..Len(words) :
                       ~(GoodAt(words, l) /\ words[l] = words[k])}}

\* C1: a text with no whitespace-delimited token equal to a supported element
\* symbol parses to the empty composition.
C1_NoElementTokenGivesEmpty ==
    (Parsed /\ \A i \in 1..Len(split(text)) : ~InList(split(text)[i], elements))
        => composition = <<>>

\* the tokens of a text when ',', ':' and ';' separate like whitespace and
\* '%' is stripped
SpecTokens(t) ==
    split(replace([i \in 1..Len(t) |->
                      IF t[i] \in {",", ":", ";"} THEN " " ELSE t[i]], "%"))

\* tokens that alternate element symbol and number, at least one pair
IsPairList(toks) ==
    /\ Len(toks) > 0
    /\ Len(toks) % 2 = 0
    /\ \A i \in 1..Len(toks) :
          IF i % 2 = 1 THEN InList(toks[i], elements) ELSE FloatOk(toks[i])

WrittenMapping(toks) ==
    {<<toks[i], FloatVal(toks[i + 1])>> :
        i \in {k \in 1..Len(toks) :
                 /\ k % 2 = 1
                 /\ \A l \in (k + 1)..Len(toks) : ~(l % 2 = 1 /\ toks[l] = toks[k])}}

\* C2: a sequence of element/number pairs parses to the written mapping
\* whether the pairs are separated by spaces, by colons and commas, or
\* carry percent signs and commas.
C2_SeparatorsEquivalent ==
    (Parsed /\ IsPairList(SpecTokens(text)))
        => AsMap(composition) = WrittenMapping(SpecTokens(text))

\* C3: when an element symbol is followed by no number, it contributes no
\* entry and the result is exactly the element/number pairs of the text.
C3_MalformedPairDropped ==
    (Parsed /\ \E i \in 1..Len(split(text)) : MalformedAt(split(text), i))
        => AsMap(composition) = RecoveredPairs(split(text))

\* C9: every key of a parsed composition is a supported element symbol and
\* every value is non-negative.
C9_ValidComposition ==
    Parsed => \A i \in 1..Len(composition) :
                 /\ InList(composition[i][1], elements)
                 /\ composition[i][2] >= 0

\* C10: a free text from which no element/number pair is recovered is
\* answered with the 'not found' reply and with no analysis result.
C10_NoPairsNotFound ==
    (Parsed /\ RecoveredPairs(split(text)) = {})
        => (reply = "not_found" /\ reply # "analysis")

(* ======================= properties of the engine ====================== *)

Shared == Keys(composition) \cap Keys(other)

\* the sum of |a[e] - b[e]| over the shared keys among elements[1..n]
RECURSIVE SharedDiff(_)
SharedDiff(n) ==
    IF n = 0 THEN 0
    ELSE SharedDiff(n - 1)
         + (IF elements[n] \in Shared
            THEN Abs(Get(composition, elements[n]) - Get(other, elements[n]))
            ELSE 0)

Restrict(d, K) == SelectSeq(d, LAMBDA p : p[1] \in K)

\* C4: the score is 0 without a shared key and max(0, 1 - diff/100) otherwise;
\* it lies in [0, 1], is 1 for a non-empty composition against itself, does
\* not depend on unshared elements and is symmetric.
C4_Similarity ==
    pc = "scored" =>
        /\ Shared = {} => score = 0
        /\ Shared # {} =>
              score = IF SharedDiff(Len(elements)) < 10000
                      THEN 10000 - SharedDiff(Len(elements)) ELSE 0
        /\ score >= 0 /\ score <= 10000
        /\ (other = composition /\ composition # <<>>) => score = 10000
        /\ score = _calculate_similarity(Restrict(composition, Shared),
                                         Restrict(other, Shared))
        /\ score = _calculate_similarity(other, composition)

\* two compositions sharing a key and differing on it, one with an unshared key
C4_Witness ==
    /\ pc = "scored"
    /\ Shared # {}
    /\ Keys(composition) \ Shared # {}
    /\ score > 0 /\ score < 10000

\* C5: the match list, before and after filter_relevant_alloys, has at most
\* 3 entries, none scoring 0.3 or less; the empty query yields the empty list.
C5_TopKAboveThreshold ==
    pc = "matched" =>
        /\ Len(matches) <= 3
        /\ \A k \in 1..Len(matches) : matches[k].score > 3000
        /\ Len(relevant) <= 3
        /\ \A k \in 1..Len(relevant) : relevant[k].score > 3000
        /\ composition = <<>> => (matches = <<>> /\ relevant = <<>>)

\* the score of catalog entry i against the query
EntryScore(i) == _calculate_similarity(composition, alloys[i].composition)

Above == {i \in 1..Len(alloys) : EntryScore(i) > 3000}

\* a query that more than 3 catalog entries match and one does not
C5_Witness ==
    /\ pc = "matched"
    /\ Cardinality(Above) > 3
    /\ Cardinality(Above) < Len(alloys)
    /\ Len(relevant) = 3

\* the catalog position of a match
Idx(m) == CHOOSE i \in 1..Len(alloys) : alloys[i].name = m.name

\* catalog entry i ranks before entry j
Before(i, j) ==
    \/ EntryScore(i) > EntryScore(j)
    \/ (EntryScore(i) = EntryScore(j) /\ i < j)

MinOf(a, b) == IF a < b THEN a ELSE b

\* C6: the matches are ordered by score descending, equal scores in catalog
\* order; they are the first 3 of the entries above the threshold under that
\* order; an entry equal to the query is returned with score 1.0 and nothing
\* of lower score precedes it.
C6_RankedStable ==
    pc = "matched" =>
        /\ \A k \in 1..Len(matches) :
              /\ \E i \in Above : alloys[i].name = matches[k].name
              /\ matches[k].score = EntryScore(Idx(matches[k]))
              /\ matches[k].composition = alloys[Idx(matches[k])].composition
        /\ \A k, l \in 1..Len(matches) :
              k < l => Before(Idx(matches[k]), Idx(matches[l]))
        /\ Len(matches) = MinOf(3, Cardinality(Above))
        /\ \A i \in Above :
              (\A k \in 1..Len(matches) : matches[k].name # alloys[i].name)
                  => \A k \in 1..Len(matches) : Before(Idx(matches[k]), i)
        /\ \A i \in 1..Len(alloys) :
              AsMap(alloys[i].composition) = AsMap(composition)
                  => \E k \in 1..Len(matches) :
                        /\ matches[k].name = alloys[i].name
                        /\ matches[k].score = 10000
                        /\ \A l \in 1..(k - 1) : matches[l].score >= 10000

\* a query with two matches of equal score and a fourth match cut off
C6_Witness ==
    /\ pc = "matched"
    /\ Cardinality(Above) > 3
    /\ \E k \in 1..(Len(matches) - 1) : matches[k].score = matches[k + 1].score

\* C7: main_element is the first entry of maximal percentage in insertion
\* order; for the empty composition it is None and the description generic.
C7_MainElementFirstMax ==
    pc = "analyzed" =>
        IF composition = <<>>
        THEN analysis.main_element = None /\ analysis.description = "generic"
        ELSE \E i \in 1..Len(composition) :
                /\ analysis.main_element = composition[i]
                /\ \A j \in 1..Len(composition) :
                      composition[j][2] <= composition[i][2]
                /\ \A j \in 1..(i - 1) : composition[j][2] < composition[i][2]

\* a composition whose first two entries share the maximal percentage
C7_Witness ==
    /\ pc = "analyzed"
    /\ Len(composition) >= 2
    /\ composition[1][2] > 0
    /\ composition[1][2] = composition[2][2]
    /\ \A j \in 1..Len(composition) : composition[j][2] <= composition[1][2]
    /\ analysis.main_element = composition[1]

\* the dominant entry: maximal percentage, first in insertion order
Dominant(comp) ==
    comp[CHOOSE i \in 1..Len(comp) :
            /\ \A j \in 1..Len(comp) : comp[j][2] <= comp[i][2]
            /\ \A j \in 1..(i - 1) : comp[j][2] < comp[i][2]]

Over50(comp, e) == \E i \in 1..Len(comp) : comp[i][1] = e /\ comp[i][2] > 5000

\* C8: the description is copper-based exactly when the dominant element is
\* Cu with more than 50; otherwise aluminum-based if Al > 50, otherwise
\* iron-based if Fe > 50, otherwise generic.
C8_DescriptionPriority ==
    pc = "analyzed" =>
        analysis.description =
            IF composition # <<>> /\ Dominant(composition)[1] = Cu
               /\ Over50(composition, Cu)
            THEN "copper"
            ELSE IF Over50(composition, Al) THEN "aluminum"
            ELSE IF Over50(composition, Fe) THEN "iron"
            ELSE "generic"

====
